---- MODULE Spec2Model ----
(***************************************************************************)
(* Shopnish storefront: the cart store and the order store of              *)
(* server/storage.ts (DatabaseStorage), the REST handlers of               *)
(* server/routes.ts and the checkout wizard of client/src/pages/checkout.  *)
(*                                                                         *)
(* Conventions.  A JavaScript value that is undefined or null is modelled  *)
(* by the falsy value of its type: user id 0, session id "".  The code     *)
(* tests these values by truthiness only, so the falsy value behaves as    *)
(* the absent one.  An optional field of a request object is a record      *)
(* field that may be missing from the record's DOMAIN.  Prices are whole   *)
(* rupees, for which the double arithmetic of the client is exact; a       *)
(* decimal string (a price, a total) is its sequence of digits, parsed and *)
(* printed digit by digit.                                                 *)
(***************************************************************************)
EXTENDS Integers, Sequences, FiniteSets, TLC

VARIABLES
    cartItems,      \* rows of the cart_items table
    nextCartId,     \* next value of the cart_items id serial
    orders,         \* rows of the orders table
    orderItems,     \* rows of the order_items table
    nextOrderId,    \* next value of the orders id serial
    submitted,      \* order id -> the items array createOrder was called with
    products,       \* rows of the products table
    reviews,        \* rows of the reviews table, in id order
    calls,          \* the addToCart calls in flight: where each one stands
    priceFilter,    \* home: useState<string[]>([]), the ticked price brackets
    ret,            \* what the last storage call returned (ok = it did not throw)
    res,            \* HTTP status of the last request handled, 0 before any
    now,            \* Date.now() of the browser
    isLoading,      \* checkout: the cart query has not resolved yet
    cartData,       \* checkout: data of the cart query (cartItems of the page)
    currentStep,    \* checkout: useState(1)
    deliveryAddress,\* checkout: the address form
    mutation,       \* checkout: createOrderMutation and its request in flight
    toast,          \* checkout: title of the last toast shown
    location        \* checkout: the route of the browser

vars ==
    <<cartItems, nextCartId, orders, orderItems, nextOrderId, submitted,
      products, reviews, calls, priceFilter, ret, res,
      now, isLoading, cartData, currentStep, deliveryAddress, mutation, toast, location>>

clientVars ==
    <<now, isLoading, cartData, currentStep, deliveryAddress, mutation, toast, location>>

cartVars == <<cartItems, nextCartId>>
orderVars == <<orders, orderItems, nextOrderId, submitted>>
catalogVars == <<products, reviews>>
callVars == <<calls>>
homeVars == <<priceFilter>>

-----------------------------------------------------------------------------
(* Bounds of the model *)

MaxCartId == 3
MaxQty == 4
MaxOrderId == 2
MaxItems == 2
MaxClock == 1
MaxReviews == 1

-----------------------------------------------------------------------------
(* Values *)

NoUser == 0
NoSession == ""
UserIds == {1}
SessionIds == {"guest-session"}
ProductIds == {1, 2}
DefaultQuantity == 1

\* The owner keys a caller supplies: a user id, a session id, or both.
OwnerKeys ==
    {k \in [userId : UserIds \cup {NoUser}, sessionId : SessionIds \cup {NoSession}] :
        k.userId # NoUser \/ k.sessionId # NoSession}

QuantityInputs == {0, 1, 2}

\* A client names its cart by a user id or by a session id.
RequestKeys == {k \in OwnerKeys : k.userId = NoUser \/ k.sessionId = NoSession}

\* InsertCartItem objects: quantity is optional.
CartInputs(keys, quantities) ==
    {[userId |-> k.userId, sessionId |-> k.sessionId, productId |-> p] :
        k \in keys, p \in ProductIds}
    \cup
    {[userId |-> k.userId, sessionId |-> k.sessionId, productId |-> p, quantity |-> q] :
        k \in keys, p \in ProductIds, q \in quantities}

HasQuantity(item) == "quantity" \in DOMAIN item

-----------------------------------------------------------------------------
(* Decimal strings *)

RECURSIVE ParseFloat(_)
\* parseFloat of a string of digits.
ParseFloat(str) ==
    IF Len(str) = 0 THEN 0
    ELSE 10 * ParseFloat(SubSeq(str, 1, Len(str) - 1)) + str[Len(str)]

RECURSIVE NumberToString(_)
\* Number.prototype.toString of a whole number >= 0.
NumberToString(n) == IF n < 10 THEN <<n>> ELSE Append(NumberToString(n \div 10), n % 10)

\* The products table: id, price (a decimal column, read as a string),
\* category, the active flag and the texts.  A text is its sequence of
\* characters; a text column that is null is missing from the row.
Products ==
    {[id |-> 1, price |-> <<1, 0, 0>>, categoryId |-> 1, isActive |-> TRUE,
      name |-> <<"A", "b">>, description |-> <<"b", "a">>],
     [id |-> 2, price |-> <<5, 0>>, categoryId |-> 2, isActive |-> TRUE,
      name |-> <<"B", "a">>, nameHindi |-> <<"a", "b">>]}

\* More rows the table may carry: an inactive product and one that has
\* every text.
MoreProducts ==
    {[id |-> 4, price |-> <<2, 0>>, categoryId |-> 1, isActive |-> FALSE,
      name |-> <<"A", "b">>],
     [id |-> 5, price |-> <<3, 0>>, categoryId |-> 2, isActive |-> TRUE,
      name |-> <<"b">>, nameHindi |-> <<"B", "B">>, description |-> <<"A">>],
     [id |-> 6, price |-> <<9, 0>>, categoryId |-> 1, isActive |-> TRUE,
      name |-> <<"a", "B", "a">>]}

\* String.prototype.toLowerCase, character by character.
LowerCaseOf(c) == CASE c = "A" -> "a" [] c = "B" -> "b" [] OTHER -> c

ToLowerCase(str) == [i \in DOMAIN str |-> LowerCaseOf(str[i])]

\* String.prototype.includes
Includes(str, sub) ==
    \E i \in 0..(Len(str) - Len(sub)) : SubSeq(str, i + 1, i + Len(sub)) = sub

-----------------------------------------------------------------------------
(* Cart store: DatabaseStorage, server/storage.ts *)

\* item.quantity || 1
QuantityOrOne(item) ==
    IF HasQuantity(item) /\ item.quantity # 0 THEN item.quantity ELSE 1

\* A find that looks at the user id only: anonymous carts never match.
MatchesExistingUserOnly(cart, item) ==
    /\ cart.productId = item.productId
    /\ item.userId # NoUser
    /\ cart.userId = item.userId

\* The predicate of existing.find(...) in addToCart.
MatchesExisting(cart, item) ==
    /\ cart.productId = item.productId
    /\ \/ (item.userId # NoUser /\ cart.userId = item.userId)
       \/ (item.sessionId # NoSession /\ cart.sessionId = item.sessionId)

ExistingItems(item) == {cart \in cartItems : MatchesExisting(cart, item)}

\* db.insert(cartItems).values(item).returning(): the row the table stores.
InsertedCartRow(item, id) ==
    [id |-> id,
     userId |-> item.userId,
     sessionId |-> item.sessionId,
     productId |-> item.productId,
     quantity |-> IF HasQuantity(item) THEN item.quantity ELSE DefaultQuantity]

\* db.update(cartItems).set({ quantity }) without a where clause.
SetQuantity(rows, quantity) == {[r EXCEPT !.quantity = quantity] : r \in rows}

AddToCart(item) ==
    IF ExistingItems(item) # {}
    THEN \E existingItem \in ExistingItems(item) :
            LET quantity == existingItem.quantity + QuantityOrOne(item) IN
            /\ quantity <= MaxQty
            /\ cartItems' = SetQuantity(cartItems, quantity)
            /\ ret' = [op |-> "addToCart", ok |-> TRUE,
                       rows |-> {r \in cartItems' : r.id = existingItem.id}]
            /\ UNCHANGED nextCartId
    ELSE /\ nextCartId <= MaxCartId
         /\ cartItems' = cartItems \cup {InsertedCartRow(item, nextCartId)}
         /\ nextCartId' = nextCartId + 1
         /\ ret' = [op |-> "addToCart", ok |-> TRUE,
                    rows |-> {InsertedCartRow(item, nextCartId)}]

\* addToCart as the server runs it next to other requests: the call awaits
\* its select and then its update or insert, and another call may run in
\* between.  First step: const existing = await db.select().from(cartItems).
AddToCartSelect(c, item) ==
    /\ calls[c].pc # "selected"
    /\ calls' = [calls EXCEPT ![c] = [pc |-> "selected", item |-> item, existing |-> cartItems]]
    /\ UNCHANGED <<cartVars, ret>>

\* A call that reads the table again when it writes.
ExistingNow(c) == cartItems

\* The rows the call works with: the ones its select returned.
ExistingSeen(c) == calls[c].existing

\* Second step: the find over the rows selected, then the update of the
\* quantity or the insert.
AddToCartWrite(c) ==
    LET item == calls[c].item
        found == {cart \in ExistingSeen(c) : MatchesExisting(cart, item)}
    IN /\ calls[c].pc = "selected"
       /\ IF found # {}
          THEN \E existingItem \in found :
                  LET quantity == existingItem.quantity + QuantityOrOne(item) IN
                  /\ quantity <= MaxQty
                  /\ cartItems' = SetQuantity(cartItems, quantity)
                  /\ ret' = [op |-> "addToCart", ok |-> TRUE,
                             rows |-> {r \in cartItems' : r.id = existingItem.id}]
                  /\ UNCHANGED nextCartId
          ELSE /\ nextCartId <= MaxCartId
               /\ cartItems' = cartItems \cup {InsertedCartRow(item, nextCartId)}
               /\ nextCartId' = nextCartId + 1
               /\ ret' = [op |-> "addToCart", ok |-> TRUE,
                          rows |-> {InsertedCartRow(item, nextCartId)}]
       /\ calls' = [calls EXCEPT ![c] = [@ EXCEPT !.pc = "returned"]]

UpdateCartItem(id, quantity) ==
    /\ IF quantity <= 0
       THEN /\ cartItems' = {}
            /\ ret' = [op |-> "updateCartItem", ok |-> TRUE, rows |-> {}]
       ELSE /\ cartItems' = SetQuantity(cartItems, quantity)
            /\ ret' = [op |-> "updateCartItem", ok |-> TRUE,
                       rows |-> {r \in cartItems' : r.id = id}]
    /\ UNCHANGED nextCartId

RemoveFromCart(id) ==
    /\ cartItems' = {}
    /\ ret' = [op |-> "removeFromCart", ok |-> TRUE, rows |-> {}, success |-> TRUE]
    /\ UNCHANGED nextCartId

ClearCart(userId, sessionId) ==
    /\ cartItems' = {}
    /\ ret' = [op |-> "clearCart", ok |-> TRUE, rows |-> {}, success |-> TRUE]
    /\ UNCHANGED nextCartId

\* The catch blocks of the cart operations.  Each operation changes the table
\* with one statement, so a statement that throws leaves the table as it was.
\* addToCart logs and rethrows.
AddToCartThrows(item) ==
    /\ ret' = [op |-> "addToCart", ok |-> FALSE, rows |-> {}]
    /\ UNCHANGED cartVars

\* updateCartItem logs and returns undefined.
UpdateCartItemCaught(id, quantity) ==
    /\ ret' = [op |-> "updateCartItem", ok |-> TRUE, rows |-> {}]
    /\ UNCHANGED cartVars

\* removeFromCart logs and returns false.
RemoveFromCartCaught(id) ==
    /\ ret' = [op |-> "removeFromCart", ok |-> TRUE, rows |-> {}, success |-> FALSE]
    /\ UNCHANGED cartVars

\* clearCart logs and returns false.
ClearCartCaught(userId, sessionId) ==
    /\ ret' = [op |-> "clearCart", ok |-> TRUE, rows |-> {}, success |-> FALSE]
    /\ UNCHANGED cartVars

\* p.field?.toLowerCase().includes(searchLower): undefined, falsy, for a null
\* text.
TextIncludes(p, field, searchLower) ==
    field \in DOMAIN p /\ Includes(ToLowerCase(p[field]), searchLower)

\* filters?.categoryId and filters?.search, tested by truthiness.
HasCategoryFilter(filters) == "categoryId" \in DOMAIN filters /\ filters.categoryId # 0
HasSearchFilter(filters) == "search" \in DOMAIN filters /\ filters.search # <<>>

\* getProducts: the rows that pass the filters, as a set.
FilteredProducts(filters) ==
    {p \in products :
        /\ p.isActive
        /\ HasCategoryFilter(filters) => p.categoryId = filters.categoryId
        /\ HasSearchFilter(filters) =>
              LET searchLower == ToLowerCase(filters.search) IN
              \/ TextIncludes(p, "name", searchLower)
              \/ TextIncludes(p, "nameHindi", searchLower)
              \/ TextIncludes(p, "description", searchLower)}

RECURSIVE SortById(_)
\* The rows of a select, in id order.
SortById(rows) ==
    IF rows = {} THEN <<>>
    ELSE LET first == CHOOSE r \in rows : \A o \in rows : r.id <= o.id
         IN <<first>> \o SortById(rows \ {first})

\* productsResult.find(p => p.id === item.productId), as a set of 0 or 1 rows
FindProduct(productId) == {p \in products : p.id = productId}

\* getCartItems: the owner's rows, each joined with its product; rows whose
\* product does not resolve are filtered out.
GetCartItems(userId, sessionId) ==
    LET filteredCart ==
            IF userId # NoUser
            THEN {item \in cartItems : item.userId = userId}
            ELSE IF sessionId # NoSession
            THEN {item \in cartItems : item.sessionId = sessionId}
            ELSE cartItems
        joined == SortById({item \in filteredCart : FindProduct(item.productId) # {}})
    IN [i \in 1..Len(joined) |->
            [id |-> joined[i].id,
             productId |-> joined[i].productId,
             quantity |-> joined[i].quantity,
             product |-> CHOOSE p \in FindProduct(joined[i].productId) : TRUE]]

\* getCartItems with its catch block: a select that throws is logged and the
\* call returns [].
GetCartItemsOrEmpty(userId, sessionId, fails) ==
    IF fails THEN <<>> ELSE GetCartItems(userId, sessionId)

\* getProducts with its catch block: the rows in id order, or [] when the
\* select throws.
GetProducts(filters, fails) ==
    IF fails THEN <<>> ELSE SortById(FilteredProducts(filters))

-----------------------------------------------------------------------------
(* GET /api/products, server/routes.ts *)

\* parseInt of a string of digits.
ParseInt(str) == ParseFloat(str)

\* The filters object the route builds: a query parameter that is present
\* and not the empty string is copied, categoryId through parseInt.  featured
\* is copied too and getProducts does not read it.
FiltersOf(query) ==
    [f \in {g \in DOMAIN query : query[g] # <<>>} |->
        IF f = "categoryId" THEN ParseInt(query[f]) ELSE query[f]]

GetProductsRoute(query, fails) ==
    /\ ret' = [op |-> "getProducts", ok |-> TRUE, list |-> GetProducts(FiltersOf(query), fails)]
    /\ res' = 200

-----------------------------------------------------------------------------
(* The home page, client/src/pages/home.tsx *)

\* The ids of the price checkboxes.
PriceRanges == {"under-25", "25-50", "50-100", "over-100"}

\* The limits of the brackets.
LowLimit == 25
MidLimit == 50
HighLimit == 100

\* A switch whose last bracket starts above its limit.
InRangeAboveLimit(price, range) ==
    CASE range = "under-25" -> price < LowLimit
      [] range = "25-50" -> price >= LowLimit /\ price < MidLimit
      [] range = "50-100" -> price >= MidLimit /\ price < HighLimit
      [] range = "over-100" -> price > HighLimit
      [] OTHER -> TRUE

\* The switch over the range id.
InRange(price, range) ==
    CASE range = "under-25" -> price < LowLimit
      [] range = "25-50" -> price >= LowLimit /\ price < MidLimit
      [] range = "50-100" -> price >= MidLimit /\ price < HighLimit
      [] range = "over-100" -> price >= HighLimit
      [] OTHER -> TRUE

\* The callback of products.filter.
PassesPriceFilter(product, filter) ==
    IF Len(filter) = 0 THEN TRUE
    ELSE \E i \in DOMAIN filter : InRange(ParseFloat(product.price), filter[i])

\* const filteredProducts = products.filter(...)
filteredProducts(list, filter) ==
    SelectSeq(list, LAMBDA product : PassesPriceFilter(product, filter))

\* The data of the products query: the list the server answered, [] before.
HomeProducts == IF ret.op = "getProducts" THEN ret.list ELSE <<>>

handlePriceFilterChange(range, checked) ==
    /\ priceFilter' = IF checked
                      THEN Append(priceFilter, range)
                      ELSE SelectSeq(priceFilter, LAMBDA r : r # range)
    /\ UNCHANGED <<cartVars, orderVars, catalogVars, callVars, ret, res, clientVars>>

\* A checkbox of the filter panel is clicked: it is shown checked when its id
\* is in priceFilter, and the click hands over the opposite.
PriceCheckboxClicked ==
    \E range \in PriceRanges :
        handlePriceFilterChange(range, ~(\E i \in DOMAIN priceFilter : priceFilter[i] = range))

-----------------------------------------------------------------------------
(* Cart routes, server/routes.ts *)

\* insertCartItemSchema.safeParse(req.body).success: productId is required,
\* the owner keys and the quantity are optional.
InsertCartItemValid(body) == "productId" \in DOMAIN body

\* GET /api/cart
GetCart(userId, sessionId, fails) ==
    /\ ret' = [op |-> "getCartItems", ok |-> TRUE,
               list |-> GetCartItemsOrEmpty(userId, sessionId, fails)]
    /\ res' = 200
    /\ UNCHANGED cartVars

\* POST /api/cart
PostCart(body, fails) ==
    IF ~InsertCartItemValid(body)
    THEN res' = 400 /\ UNCHANGED <<cartVars, ret>>
    ELSE /\ IF fails THEN AddToCartThrows(body) ELSE AddToCart(body)
         /\ res' = IF ret'.ok THEN 200 ELSE 500

\* typeof quantity !== 'number' || quantity < 0
InvalidQuantity(body) == "quantity" \notin DOMAIN body \/ body.quantity < 0

\* PUT /api/cart/:id
PutCart(id, body, fails) ==
    IF InvalidQuantity(body)
    THEN res' = 400 /\ UNCHANGED <<cartVars, ret>>
    ELSE /\ IF fails THEN UpdateCartItemCaught(id, body.quantity)
                      ELSE UpdateCartItem(id, body.quantity)
         /\ res' = IF ret'.rows = {} /\ body.quantity > 0 THEN 404 ELSE 200

\* DELETE /api/cart/:id
DeleteCartItem(id, fails) ==
    /\ IF fails THEN RemoveFromCartCaught(id) ELSE RemoveFromCart(id)
    /\ res' = IF ret'.success THEN 200 ELSE 404

\* DELETE /api/cart
DeleteCart(userId, sessionId, fails) ==
    /\ IF fails THEN ClearCartCaught(userId, sessionId) ELSE ClearCart(userId, sessionId)
    /\ res' = 200

-----------------------------------------------------------------------------
(* Order store: DatabaseStorage.createOrder, server/storage.ts *)

\* The prefix of the for loop: items 1..k, each stored as
\* { ...item, orderId: newOrder.id }.
OrderItemRowsFromSecond(items, orderId, k) ==
    [i \in 1..(k - 1) |->
        [orderId |-> orderId,
         productId |-> items[i + 1].productId,
         quantity |-> items[i + 1].quantity,
         unitPrice |-> items[i + 1].unitPrice,
         totalPrice |-> items[i + 1].totalPrice]]

OrderItemRows(items, orderId, k) ==
    [i \in 1..k |->
        [orderId |-> orderId,
         productId |-> items[i].productId,
         quantity |-> items[i].quantity,
         unitPrice |-> items[i].unitPrice,
         totalPrice |-> items[i].totalPrice]]

\* db.insert(orders).values(order).returning()[0]
InsertedOrderRow(order, id) ==
    [id |-> id,
     orderNumber |-> order.orderNumber,
     subtotal |-> order.subtotal,
     deliveryCharge |-> order.deliveryCharge,
     total |-> order.total]

\* An orders table without a unique index on order_number.
OrderNumberNeverTaken(order) == FALSE

\* orders.order_number is unique: the insert of a header whose number a
\* stored order carries throws.
OrderNumberTaken(order) == \E o \in orders : o.orderNumber = order.orderNumber

\* failAt names the insert that throws: 0 the header's, i in 1..Len(items) the
\* i-th item's, Len(items) + 1 none.  The statements before it have taken
\* effect; nothing is rolled back.
CreateOrder(order, items, failAt) ==
    LET newOrder == InsertedOrderRow(order, nextOrderId) IN
    IF failAt = 0 \/ OrderNumberTaken(order)
    THEN /\ ret' = [op |-> "createOrder", ok |-> FALSE, rows |-> {}]
         /\ UNCHANGED orderVars
    ELSE /\ nextOrderId <= MaxOrderId
         /\ orders' = orders \cup {newOrder}
         /\ nextOrderId' = nextOrderId + 1
         /\ submitted' = (newOrder.id :> items) @@ submitted
         /\ IF failAt <= Len(items)
            THEN /\ orderItems' = orderItems \o OrderItemRows(items, newOrder.id, failAt - 1)
                 /\ ret' = [op |-> "createOrder", ok |-> FALSE, rows |-> {}]
            ELSE /\ orderItems' = orderItems \o OrderItemRows(items, newOrder.id, Len(items))
                 /\ ret' = [op |-> "createOrder", ok |-> TRUE, rows |-> {newOrder}]

\* A getOrder that reads the price of each item off the joined product.
GetOrderLivePrice(id) ==
    LET orderItemsData == SelectSeq(orderItems, LAMBDA item : item.orderId = id)
        items == SelectSeq(orderItemsData, LAMBDA item : FindProduct(item.productId) # {})
    IN {[id |-> order.id,
         orderNumber |-> order.orderNumber,
         subtotal |-> order.subtotal,
         deliveryCharge |-> order.deliveryCharge,
         total |-> order.total,
         items |-> [i \in 1..Len(items) |->
                      LET product == CHOOSE p \in FindProduct(items[i].productId) : TRUE
                      IN [orderId |-> items[i].orderId,
                          productId |-> items[i].productId,
                          quantity |-> items[i].quantity,
                          unitPrice |-> product.price,
                          totalPrice |-> NumberToString(ParseFloat(product.price) * items[i].quantity),
                          product |-> product]]] :
        order \in {o \in orders : o.id = id}}

\* getOrder, as a set of 0 or 1 orders: the header with its items, each item
\* joined with its product; items whose product does not resolve are
\* filtered out.
GetOrder(id) ==
    LET orderItemsData == SelectSeq(orderItems, LAMBDA item : item.orderId = id)
        items == SelectSeq(orderItemsData, LAMBDA item : FindProduct(item.productId) # {})
    IN {[id |-> order.id,
         orderNumber |-> order.orderNumber,
         subtotal |-> order.subtotal,
         deliveryCharge |-> order.deliveryCharge,
         total |-> order.total,
         items |-> [i \in 1..Len(items) |->
                      LET product == CHOOSE p \in FindProduct(items[i].productId) : TRUE
                      IN [orderId |-> items[i].orderId,
                          productId |-> items[i].productId,
                          quantity |-> items[i].quantity,
                          unitPrice |-> items[i].unitPrice,
                          totalPrice |-> items[i].totalPrice,
                          product |-> product]]] :
        order \in {o \in orders : o.id = id}}

\* The live price of a product is rewritten in the products table.
ChangeProductPrice(id, price) ==
    /\ \E p \in products : p.id = id /\ p.price # price
    /\ products' = {IF p.id = id THEN [p EXCEPT !.price = price] ELSE p : p \in products}
    /\ UNCHANGED reviews

-----------------------------------------------------------------------------
(* POST /api/orders, server/routes.ts *)

OrderFields == {"orderNumber", "subtotal", "deliveryCharge", "total"}

\* insertOrderSchema.safeParse(order).success: the header carries its fields.
\* The schema checks each field on its own.
InsertOrderValid(order) == DOMAIN order = OrderFields

\* A check that looks for the items field only.
NoItemsField(body) == "items" \notin DOMAIN body

\* !Array.isArray(items) || items.length === 0
NoItems(body) == "items" \notin DOMAIN body \/ Len(body.items) = 0

PostOrders(body, failAt) ==
    IF ~InsertOrderValid(body.order)
    THEN res' = 400 /\ UNCHANGED <<orderVars, ret>>
    ELSE IF NoItems(body)
    THEN res' = 400 /\ UNCHANGED <<orderVars, ret>>
    ELSE /\ CreateOrder(body.order, body.items, failAt)
         /\ res' = IF ret'.ok THEN 200 ELSE 500

-----------------------------------------------------------------------------
(* POST /api/products/:id/reviews, server/routes.ts *)

\* { ...req.body, productId }
ReviewData(productId, body) ==
    [f \in DOMAIN body \cup {"productId"} |->
        IF f = "productId" THEN productId ELSE body[f]]

\* insertReviewSchema.safeParse(reviewData).success: the rating is required.
InsertReviewValid(reviewData) == "rating" \in DOMAIN reviewData

\* createReview has no catch block: an insert that throws reaches the route.
CreateReview(review, fails) ==
    LET row == [id |-> Len(reviews) + 1,
                productId |-> review.productId,
                rating |-> review.rating]
    IN IF fails
       THEN /\ ret' = [op |-> "createReview", ok |-> FALSE, rows |-> {}]
            /\ UNCHANGED reviews
       ELSE /\ Len(reviews) < MaxReviews
            /\ reviews' = Append(reviews, row)
            /\ ret' = [op |-> "createReview", ok |-> TRUE, rows |-> {row}]

PostReview(productId, body, fails) ==
    IF ~InsertReviewValid(ReviewData(productId, body))
    THEN res' = 400 /\ UNCHANGED <<reviews, ret>>
    ELSE /\ CreateReview(ReviewData(productId, body), fails)
         /\ res' = IF ret'.ok THEN 200 ELSE 500

-----------------------------------------------------------------------------
(* Checkout page: client/src/pages/checkout.tsx *)

GuestSession == "guest-session"

\* `ORD${Date.now()}`
OrderNumber(time) == [prefix |-> "ORD", time |-> time]
FreeDeliveryFrom == 500
FlatDeliveryCharge == 25

RECURSIVE Subtotal(_)
\* cartItems.reduce((sum, item) => sum + parseFloat(item.product.price) * item.quantity, 0)
Subtotal(items) ==
    IF Len(items) = 0 THEN 0
    ELSE Subtotal(SubSeq(items, 1, Len(items) - 1))
            + ParseFloat(items[Len(items)].product.price) * items[Len(items)].quantity

\* A free-delivery test that leaves out the threshold itself.
DeliveryChargeAbove(subtotal) ==
    IF subtotal > FreeDeliveryFrom THEN 0 ELSE FlatDeliveryCharge

\* subtotal >= 500 ? 0 : 25
DeliveryCharge(subtotal) ==
    IF subtotal >= FreeDeliveryFrom THEN 0 ELSE FlatDeliveryCharge

Total(items) == Subtotal(items) + DeliveryCharge(Subtotal(items))

\* A check of the address that forgets the pincode.
AddressCompleteNoPincode(a) ==
    a.fullName # "" /\ a.phone # "" /\ a.address # ""

\* The negation of the guard of handlePlaceOrder.
AddressComplete(a) ==
    a.fullName # "" /\ a.phone # "" /\ a.address # "" /\ a.pincode # ""

\* An orderData whose items carry the unit price as their total.
OrderDataUnitTotals ==
    [order |->
        [orderNumber |-> OrderNumber(now),
         subtotal |-> NumberToString(Subtotal(cartData)),
         deliveryCharge |-> NumberToString(DeliveryCharge(Subtotal(cartData))),
         total |-> NumberToString(Total(cartData))],
     items |->
        [i \in 1..Len(cartData) |->
            [productId |-> cartData[i].productId,
             quantity |-> cartData[i].quantity,
             unitPrice |-> cartData[i].product.price,
             totalPrice |-> cartData[i].product.price]]]

\* orderData of handlePlaceOrder; of the header, the fields the server's
\* schema requires and the properties read.
OrderData ==
    [order |->
        [orderNumber |-> OrderNumber(now),
         subtotal |-> NumberToString(Subtotal(cartData)),
         deliveryCharge |-> NumberToString(DeliveryCharge(Subtotal(cartData))),
         total |-> NumberToString(Total(cartData))],
     items |->
        [i \in 1..Len(cartData) |->
            [productId |-> cartData[i].productId,
             quantity |-> cartData[i].quantity,
             unitPrice |-> cartData[i].product.price,
             totalPrice |->
                NumberToString(ParseFloat(cartData[i].product.price) * cartData[i].quantity)]]]

\* The wizard is rendered: the page is open, the cart has loaded and is not empty.
WizardShown == location = "/checkout" /\ ~isLoading /\ Len(cartData) > 0

\* useQuery(["/api/cart"], { sessionId: "guest-session" }) resolves, at load
\* or at a refetch.
CartQueryResolves ==
    /\ location = "/checkout"
    /\ cartData' = GetCartItems(NoUser, GuestSession)
    /\ isLoading' = FALSE
    /\ UNCHANGED <<now, currentStep, deliveryAddress, mutation, toast, location>>

\* A first step that jumps to the payment step.
ProceedToPaymentFromCart ==
    /\ WizardShown
    /\ currentStep = 1
    /\ currentStep' = 3
    /\ UNCHANGED <<now, isLoading, cartData, deliveryAddress, mutation, toast, location>>

ProceedToDeliveryAddress ==
    /\ WizardShown
    /\ currentStep = 1
    /\ currentStep' = 2
    /\ UNCHANGED <<now, isLoading, cartData, deliveryAddress, mutation, toast, location>>

BackToCart ==
    /\ WizardShown
    /\ currentStep = 2
    /\ currentStep' = 1
    /\ UNCHANGED <<now, isLoading, cartData, deliveryAddress, mutation, toast, location>>

ProceedToPayment ==
    /\ WizardShown
    /\ currentStep = 2
    /\ currentStep' = 3
    /\ UNCHANGED <<now, isLoading, cartData, deliveryAddress, mutation, toast, location>>

BackToAddress ==
    /\ WizardShown
    /\ currentStep = 3
    /\ currentStep' = 2
    /\ UNCHANGED <<now, isLoading, cartData, deliveryAddress, mutation, toast, location>>

\* onChange of an input of the address form, shown in step 2.
SetDeliveryAddress(field, value) ==
    /\ WizardShown
    /\ currentStep = 2
    /\ deliveryAddress' = [deliveryAddress EXCEPT ![field] = value]
    /\ UNCHANGED <<now, isLoading, cartData, currentStep, mutation, toast, location>>

\* A Place Order button that stays enabled while the mutation is pending.
HandlePlaceOrderWhilePending ==
    /\ WizardShown
    /\ currentStep = 3
    /\ IF ~AddressComplete(deliveryAddress)
       THEN /\ toast' = "Address Required"
            /\ UNCHANGED mutation
       ELSE /\ mutation' = [status |-> "pending", orderData |-> OrderData, response |-> 0]
            /\ UNCHANGED toast
    /\ UNCHANGED <<now, isLoading, cartData, currentStep, deliveryAddress, location>>

\* The Place Order button of step 3, disabled while the mutation is pending.
HandlePlaceOrder ==
    /\ WizardShown
    /\ currentStep = 3
    /\ mutation.status # "pending"
    /\ IF ~AddressComplete(deliveryAddress)
       THEN /\ toast' = "Address Required"
            /\ UNCHANGED mutation
       ELSE /\ mutation' = [status |-> "pending", orderData |-> OrderData, response |-> 0]
            /\ UNCHANGED toast
    /\ UNCHANGED <<now, isLoading, cartData, currentStep, deliveryAddress, location>>

\* apiRequest resolves for a 2xx answer and throws for any other.
RequestSucceeded(status) == status = 200

\* onSuccess or onError of createOrderMutation, once the answer has arrived.
MutationSettles ==
    /\ mutation.status = "pending"
    /\ mutation.response # 0
    /\ IF RequestSucceeded(mutation.response)
       THEN /\ toast' = "Order Placed Successfully!"
            /\ location' = "/order-confirmation"
            /\ mutation' = [mutation EXCEPT !.status = "success"]
       ELSE /\ toast' = "Order Failed"
            /\ mutation' = [mutation EXCEPT !.status = "error"]
            /\ UNCHANGED location
    /\ UNCHANGED <<now, isLoading, cartData, currentStep, deliveryAddress>>

\* The clock of the browser advances.  Only handlePlaceOrder reads it, so it
\* is let to advance where that handler can run.
Tick ==
    /\ WizardShown
    /\ currentStep = 3
    /\ mutation.status # "pending"
    /\ now < MaxClock
    /\ now' = now + 1
    /\ UNCHANGED <<isLoading, cartData, currentStep, deliveryAddress, mutation, toast, location>>

-----------------------------------------------------------------------------
(* The cart store on its own: calls executed one at a time *)

NoRet == [op |-> "none", ok |-> TRUE, rows |-> {}]

\* useMutation before any mutate(): no request, no response.
IdleMutation == [status |-> "idle", orderData |-> <<>>, response |-> 0]

\* The requests the server may be handling at the same time.
Callers == {1, 2}

IdleCall == [pc |-> "idle"]

InitWith(rows) ==
    /\ cartItems = {}
    /\ nextCartId = 1
    /\ orders = {}
    /\ orderItems = <<>>
    /\ nextOrderId = 1
    /\ submitted = <<>>
    /\ products = rows
    /\ reviews = <<>>
    /\ calls = [c \in Callers |-> IdleCall]
    /\ priceFilter = <<>>
    /\ ret = NoRet
    /\ res = 0
    /\ now = 0
    /\ isLoading = TRUE
    /\ cartData = <<>>
    /\ currentStep = 1
    /\ deliveryAddress = [fullName |-> "", phone |-> "", address |-> "", pincode |-> ""]
    /\ mutation = IdleMutation
    /\ toast = ""
    /\ location = "/checkout"

Init == InitWith(Products)

CartAdd == \E item \in CartInputs(OwnerKeys, QuantityInputs) : AddToCart(item) /\ UNCHANGED <<orderVars, catalogVars, callVars, homeVars, res, clientVars>>
CartUpdate ==
    \E id \in 1..MaxCartId, quantity \in 0..2 :
        UpdateCartItem(id, quantity) /\ UNCHANGED <<orderVars, catalogVars, callVars, homeVars, res, clientVars>>
CartRemove == \E id \in 1..MaxCartId : RemoveFromCart(id) /\ UNCHANGED <<orderVars, catalogVars, callVars, homeVars, res, clientVars>>
CartClear == \E k \in OwnerKeys : ClearCart(k.userId, k.sessionId) /\ UNCHANGED <<orderVars, catalogVars, callVars, homeVars, res, clientVars>>

NextCart == CartAdd \/ CartUpdate \/ CartRemove \/ CartClear

SpecCart == Init /\ [][NextCart]_vars

-----------------------------------------------------------------------------
(* addToCart calls that run at the same time *)

\* Requests of one session for one product, with and without a quantity.
ConcurrentInputs ==
    {item \in CartInputs({[userId |-> NoUser, sessionId |-> "guest-session"]}, {2}) :
        item.productId = 1}

ConcurrentSelect ==
    \E c \in Callers : \E item \in ConcurrentInputs :
        AddToCartSelect(c, item)
        /\ UNCHANGED <<orderVars, catalogVars, homeVars, res, clientVars>>

ConcurrentWrite ==
    \E c \in Callers :
        AddToCartWrite(c)
        /\ UNCHANGED <<orderVars, catalogVars, homeVars, res, clientVars>>

NextConcurrent == ConcurrentSelect \/ ConcurrentWrite

SpecConcurrent == Init /\ [][NextConcurrent]_vars

-----------------------------------------------------------------------------
(* The product list, asked for with any query over any catalogue *)

\* Query strings of GET /api/products: each parameter present or not.
ProductQueries ==
    {[f \in D |-> IF f = "categoryId" THEN c ELSE s] :
        D \in SUBSET {"categoryId", "search"},
        c \in {<<0>>, <<1>>, <<2>>},
        s \in {<<>>, <<"a">>, <<"A", "B">>, <<"b", "a">>}}

InitCatalog == \E rows \in SUBSET (Products \cup MoreProducts) : InitWith(rows)

ApiGetProducts ==
    \E query \in ProductQueries : \E fails \in BOOLEAN :
        /\ GetProductsRoute(query, fails)
        /\ UNCHANGED <<cartVars, orderVars, catalogVars, callVars, homeVars, clientVars>>

NextProducts == ApiGetProducts

SpecProducts == InitCatalog /\ [][NextProducts]_vars

\* The home page: the products query and the price checkboxes.
NextHome == ApiGetProducts \/ PriceCheckboxClicked

SpecHome == InitCatalog /\ [][NextHome]_vars

-----------------------------------------------------------------------------
(* The cart routes, called with any request; a storage call may fail *)

\* A product id no row of the products table carries.
UnknownProductId == 3

\* Bodies of POST /api/cart: cart items of a known or an unknown product, and
\* a body without productId.
CartBodies ==
    {[userId |-> k.userId, sessionId |-> k.sessionId, productId |-> p] :
        k \in RequestKeys, p \in {1, UnknownProductId}}
    \cup
    {[userId |-> k.userId, sessionId |-> k.sessionId, productId |-> p, quantity |-> 2] :
        k \in RequestKeys, p \in {1, UnknownProductId}}
    \cup
    {[userId |-> k.userId, sessionId |-> k.sessionId] : k \in RequestKeys}

\* Bodies of PUT /api/cart/:id: a quantity, or no quantity at all.
QuantityBodies == {[quantity |-> q] : q \in -1..2} \cup {[amount |-> 1]}

ApiGetCart ==
    \E k \in RequestKeys : \E fails \in BOOLEAN :
        GetCart(k.userId, k.sessionId, fails) /\ UNCHANGED <<orderVars, catalogVars, callVars, homeVars, clientVars>>

ApiPostCart ==
    \E body \in CartBodies : \E fails \in BOOLEAN :
        PostCart(body, fails) /\ UNCHANGED <<orderVars, catalogVars, callVars, homeVars, clientVars>>

ApiPutCart ==
    \E id \in 1..MaxCartId : \E body \in QuantityBodies : \E fails \in BOOLEAN :
        PutCart(id, body, fails) /\ UNCHANGED <<orderVars, catalogVars, callVars, homeVars, clientVars>>

ApiDeleteCartItem ==
    \E id \in 1..MaxCartId : \E fails \in BOOLEAN :
        DeleteCartItem(id, fails) /\ UNCHANGED <<orderVars, catalogVars, callVars, homeVars, clientVars>>

ApiDeleteCart ==
    \E k \in RequestKeys : \E fails \in BOOLEAN :
        DeleteCart(k.userId, k.sessionId, fails) /\ UNCHANGED <<orderVars, catalogVars, callVars, homeVars, clientVars>>

NextCartApi == ApiGetCart \/ ApiPostCart \/ ApiPutCart \/ ApiDeleteCartItem \/ ApiDeleteCart

SpecCartApi == Init /\ [][NextCartApi]_vars

-----------------------------------------------------------------------------
(* The order endpoint on its own: any client may post any body *)

\* The i-th line item of a posted body: the two kinds alternate.
OrderItemInput(i) ==
    IF i % 2 = 1
    THEN [productId |-> 1, quantity |-> 2, unitPrice |-> <<1, 0, 0>>, totalPrice |-> <<2, 0, 0>>]
    ELSE [productId |-> 2, quantity |-> 1, unitPrice |-> <<5, 0>>, totalPrice |-> <<5, 0>>]

ItemSeqs == {[i \in 1..n |-> OrderItemInput(i)] : n \in 0..MaxItems}

OrderInputs ==
    {[orderNumber |-> OrderNumber(t), subtotal |-> NumberToString(250),
      deliveryCharge |-> NumberToString(25), total |-> NumberToString(a)] :
        t \in {1, 2}, a \in {275, 250}}
    \cup {[orderNumber |-> OrderNumber(1)]}

\* Bodies with an items array, and bodies without the items field.
OrderBodies == [order : OrderInputs, items : ItemSeqs] \cup [order : OrderInputs]

\* The inserts createOrder would run for the body: the header's and one per
\* line item.
InsertsOf(body) == IF "items" \in DOMAIN body THEN Len(body.items) + 1 ELSE 1

ApiPostOrders ==
    \E body \in OrderBodies : \E failAt \in 0..InsertsOf(body) :
        PostOrders(body, failAt) /\ UNCHANGED <<cartVars, catalogVars, callVars, homeVars, clientVars>>

NextOrder == ApiPostOrders

SpecOrder == Init /\ [][NextOrder]_vars

-----------------------------------------------------------------------------
(* The mutating routes, called with well-formed and with malformed bodies *)

OrderItemFields == {"productId", "quantity", "unitPrice", "totalPrice"}

\* A line item that carries every column of order_items.
WellFormedItem(item) == DOMAIN item = OrderItemFields

\* The first line item whose insert the order_items table turns down, or
\* Len(items) + 1 when every item is well formed.
FirstMalformed(items) ==
    IF \A i \in DOMAIN items : WellFormedItem(items[i])
    THEN Len(items) + 1
    ELSE CHOOSE i \in DOMAIN items :
            /\ ~WellFormedItem(items[i])
            /\ \A j \in 1..(i - 1) : WellFormedItem(items[j])

\* A line item with nothing but a product id.
MalformedItem == [productId |-> 1]

AnyCartBodies ==
    {[userId |-> NoUser, sessionId |-> GuestSession, productId |-> 1],
     [userId |-> NoUser, sessionId |-> GuestSession]}

AnyOrderBodies ==
    [order : {[orderNumber |-> OrderNumber(t), subtotal |-> NumberToString(250),
               deliveryCharge |-> NumberToString(25), total |-> NumberToString(275)] :
                 t \in {1, 2}}
             \cup {[orderNumber |-> OrderNumber(1)]},
     items : {<<>>, <<OrderItemInput(1)>>, <<MalformedItem>>,
              <<OrderItemInput(1), MalformedItem>>}]

AnyReviewBodies == {[rating |-> 5], [comment |-> "good"]}

AnyPostCart ==
    \E body \in AnyCartBodies :
        PostCart(body, FALSE) /\ UNCHANGED <<orderVars, catalogVars, callVars, homeVars, clientVars>>

AnyPutCart ==
    \E id \in 1..MaxCartId : \E body \in QuantityBodies :
        PutCart(id, body, FALSE) /\ UNCHANGED <<orderVars, catalogVars, callVars, homeVars, clientVars>>

AnyPostOrders ==
    \E body \in AnyOrderBodies : \E failAt \in 0..FirstMalformed(body.items) :
        PostOrders(body, failAt) /\ UNCHANGED <<cartVars, catalogVars, callVars, homeVars, clientVars>>

AnyPostReview ==
    \E productId \in ProductIds : \E body \in AnyReviewBodies : \E fails \in BOOLEAN :
        PostReview(productId, body, fails)
        /\ UNCHANGED <<cartVars, orderVars, products, callVars, homeVars, clientVars>>

NextAnyBody == AnyPostCart \/ AnyPutCart \/ AnyPostOrders \/ AnyPostReview

SpecAnyBody == Init /\ [][NextAnyBody]_vars

-----------------------------------------------------------------------------
(* Orders are placed while the live prices of the products change *)

LivePrices == {<<1, 0, 0>>, <<1, 2, 0>>}

RepriceProduct ==
    \E id \in ProductIds : \E price \in LivePrices :
        ChangeProductPrice(id, price)
        /\ UNCHANGED <<cartVars, orderVars, callVars, homeVars, ret, res, clientVars>>

NextOrderPrice == ApiPostOrders \/ RepriceProduct

SpecOrderPrice == Init /\ [][NextOrderPrice]_vars

-----------------------------------------------------------------------------
(* One browser session: it fills its cart, opens the checkout page and walks *)
(* through the wizard; the server answers its order request.               *)

GuestKey == [userId |-> NoUser, sessionId |-> GuestSession]

\* The session adds to its cart before the checkout page has loaded it.
Shop ==
    /\ isLoading
    /\ \E item \in CartInputs({GuestKey}, {2}) : AddToCart(item)
    /\ UNCHANGED <<orderVars, catalogVars, callVars, homeVars, res, clientVars>>

\* The server handles the order request in flight and answers it.
ServerHandlesOrder ==
    /\ mutation.status = "pending"
    /\ mutation.response = 0
    /\ \E failAt \in 0..(Len(mutation.orderData.items) + 1) :
            PostOrders(mutation.orderData, failAt)
    /\ mutation' = [mutation EXCEPT !.response = res']
    /\ UNCHANGED <<cartVars, catalogVars, callVars, homeVars, now, isLoading, cartData, currentStep, deliveryAddress,
                   toast, location>>

ServerVars == <<cartVars, orderVars, catalogVars, callVars, ret, res>>

AddressFields == {"fullName", "phone", "address", "pincode"}

NextCheckout ==
    \/ Shop
    \/ ServerHandlesOrder
    \/ CartQueryResolves /\ UNCHANGED <<ServerVars, homeVars>>
    \/ ProceedToDeliveryAddress /\ UNCHANGED <<ServerVars, homeVars>>
    \/ BackToCart /\ UNCHANGED <<ServerVars, homeVars>>
    \/ ProceedToPayment /\ UNCHANGED <<ServerVars, homeVars>>
    \/ BackToAddress /\ UNCHANGED <<ServerVars, homeVars>>
    \/ \E f \in AddressFields, v \in {"", "x"} :
            SetDeliveryAddress(f, v) /\ UNCHANGED <<ServerVars, homeVars>>
    \/ HandlePlaceOrder /\ UNCHANGED <<ServerVars, homeVars>>
    \/ MutationSettles /\ UNCHANGED <<ServerVars, homeVars>>
    \/ Tick /\ UNCHANGED <<ServerVars, homeVars>>

SpecCheckout == Init /\ [][NextCheckout]_vars

-----------------------------------------------------------------------------
(* Properties of the cart store *)

\* Two distinct rows that carry the same product for the same owner key.
SamePair(a, b) ==
    /\ a.id # b.id
    /\ a.productId = b.productId
    /\ \/ (a.userId # NoUser /\ a.userId = b.userId)
       \/ (a.sessionId # NoSession /\ a.sessionId = b.sessionId)

\* C1: after any sequence of addToCart, updateCartItem, removeFromCart and
\* clearCart calls executed one at a time, the cart table holds at most one
\* row per (owner, productId) pair, the owner being the row's userId or its
\* sessionId.
C1_OneRowPerOwnerProduct ==
    \A a \in cartItems : \A b \in cartItems : ~SamePair(a, b)

\* An addToCart that found the pair's row and returned it, while another
\* owner holds a row for the same product.
C1_Witness ==
    /\ ret.op = "addToCart"
    /\ Cardinality(cartItems) = 2
    /\ \A a \in cartItems : \A b \in cartItems : a.productId = b.productId
    /\ \E r \in ret.rows : r.id < nextCartId - 1

\* The row of the cart that belongs to the owner and the product of a request.
OwnsPair(cart, item) ==
    /\ cart.productId = item.productId
    /\ \/ (item.userId # NoUser /\ cart.userId = item.userId)
       \/ (item.sessionId # NoSession /\ cart.sessionId = item.sessionId)

\* The amount a request asks for: q, or 1 when q is unspecified.
Requested(item) == IF HasQuantity(item) THEN item.quantity ELSE 1

RowIds(rows) == {r.id : r \in rows}

\* What C2 says of one addToCart(item) step.
AddToCartContract(item) ==
    LET owned == {cart \in cartItems : OwnsPair(cart, item)} IN
    IF owned # {}
    THEN /\ \E e \in owned :
               ret'.rows = {[e EXCEPT !.quantity = e.quantity + Requested(item)]}
         /\ ret'.rows \subseteq cartItems'
         /\ RowIds(cartItems') = RowIds(cartItems)
    ELSE /\ Cardinality(cartItems' \ cartItems) = 1
         /\ cartItems \subseteq cartItems'
         /\ ret'.rows = cartItems' \ cartItems
         /\ \A r \in ret'.rows :
               /\ r.id \notin RowIds(cartItems)
               /\ r.productId = item.productId
               /\ r.userId = item.userId
               /\ r.sessionId = item.sessionId

\* C2: addToCart(owner, productId, q): when a row exists for (owner,
\* productId) with quantity n, the call returns that row with quantity n + q
\* (n + 1 when q is unspecified) and inserts no row; when none exists, it
\* inserts exactly one new row for (owner, productId) and returns it.
C2_AddToCartContract ==
    [][\A item \in CartInputs(OwnerKeys, QuantityInputs) :
          AddToCart(item) => AddToCartContract(item)]_vars

\* C22: every CartItem in the cart store has quantity > 0 in every reachable
\* state, for every sequence of addToCart (with any quantity it is handed, 0
\* included) and updateCartItem calls.
C22_QuantityPositive == \A r \in cartItems : r.quantity > 0

\* C27: addToCart for an (owner, productId) pair that already has a row
\* changes the quantity of that row only: every other cart row, of the same
\* owner and of every other owner, keeps its quantity.
C27_AddChangesOneRow ==
    [][\A item \in CartInputs(OwnerKeys, QuantityInputs) :
          (AddToCart(item) /\ \E e \in cartItems : OwnsPair(e, item)) =>
              \A r \in cartItems : ~OwnsPair(r, item) => r \in cartItems']_vars

\* The rows of an owner key: the user's when a user id is given, else the
\* session's.
OwnedBy(row, userId, sessionId) ==
    IF userId # NoUser THEN row.userId = userId ELSE row.sessionId = sessionId

\* C12: removeItem(itemId) deletes exactly the cart row whose id is itemId:
\* after the call that row is absent and every other cart row, of the same
\* owner and of every other owner, is still present with its quantity
\* unchanged.
C12_RemoveDeletesOneRow ==
    [][\A id \in 1..MaxCartId :
          RemoveFromCart(id) => cartItems' = {r \in cartItems : r.id # id}]_vars

\* C13: clearCart(ownerKey) deletes exactly the cart rows owned by ownerKey:
\* after the call that owner's cart is empty and the cart rows of every other
\* owner are unchanged.
C13_ClearDeletesOwnersRows ==
    [][\A k \in OwnerKeys :
          ClearCart(k.userId, k.sessionId) =>
              cartItems' = {r \in cartItems : ~OwnedBy(r, k.userId, k.sessionId)}]_vars

\* C14: updateQuantity(itemId, q) with q > 0 yields a cart identical to the
\* cart before the call except that the row itemId has quantity q, and returns
\* that row; no row other than itemId changes its quantity.
C14_UpdateChangesOneRow ==
    [][\A id \in 1..MaxCartId : \A q \in 1..MaxQty :
          UpdateCartItem(id, q) =>
              /\ cartItems' =
                    {IF r.id = id THEN [r EXCEPT !.quantity = q] ELSE r : r \in cartItems}
              /\ ret'.rows = {r \in cartItems' : r.id = id}]_vars

\* The callers that supply a user id and a session id.
BothKeys == {k \in OwnerKeys : k.userId # NoUser /\ k.sessionId # NoSession}

\* C23: owner-key resolution prefers userId over sessionId when both are
\* supplied: a listing with both keys shows only rows of that userId, and
\* addToCart with both keys works on (matches, or else inserts) a row of that
\* userId, never a row that merely shares the sessionId.
C23_UserIdPreferred ==
    /\ [](\A k \in BothKeys :
            \A i \in DOMAIN GetCartItems(k.userId, k.sessionId) :
                \A r \in cartItems :
                    r.id = GetCartItems(k.userId, k.sessionId)[i].id => r.userId = k.userId)
    /\ [][\A item \in CartInputs(BothKeys, QuantityInputs) :
            AddToCart(item) => \A r \in ret'.rows : r.userId = item.userId]_vars

-----------------------------------------------------------------------------
(* Properties of addToCart calls that run at the same time *)

\* Both calls have returned, and both selected the same table, in which row r
\* was the row of the pair they ask for: each read before the other wrote.
BothReadThenWrote(c1, c2, r) ==
    /\ c1 # c2
    /\ calls[c1].pc = "returned"
    /\ calls[c2].pc = "returned"
    /\ calls[c1].existing = calls[c2].existing
    /\ {x \in calls[c1].existing : OwnsPair(x, calls[c1].item)} = {r}
    /\ {x \in calls[c2].existing : OwnsPair(x, calls[c2].item)} = {r}

\* C25: two addToCart calls for the same owner and product that run
\* concurrently can interleave their read and their write so that one
\* increment is lost: whenever both calls read the row before either wrote,
\* the final quantity of the row is smaller than its initial quantity plus
\* both requested amounts, and such a final state is reachable.
C25_IncrementLost ==
    \A c1 \in Callers : \A c2 \in Callers :
        (calls[c1].pc = "returned" /\ calls[c2].pc = "returned") =>
            \A r \in calls[c1].existing : \A row \in cartItems :
                (BothReadThenWrote(c1, c2, r) /\ row.id = r.id) =>
                    row.quantity < r.quantity + Requested(calls[c1].item)
                                              + Requested(calls[c2].item)

\* Both calls read the row at quantity 1, asked for 1 and 2 more, and have
\* returned; the row is still there.
C25_Witness ==
    /\ calls[1].pc = "returned"
    /\ calls[2].pc = "returned"
    /\ \E r \in calls[1].existing :
        /\ BothReadThenWrote(1, 2, r)
        /\ r.quantity = 1
        /\ Requested(calls[1].item) = 1
        /\ Requested(calls[2].item) = 2
        /\ \E row \in cartItems : row.id = r.id /\ row.quantity < 4

\* C28: the uniqueness of cart rows per (owner, productId) also holds when
\* addToCart calls interleave: two concurrent calls for the same owner and
\* product, started when no row exists for the pair, never leave two rows for
\* that pair.
C28_OneRowWhenInterleaved ==
    \A item \in ConcurrentInputs :
        Cardinality({r \in cartItems : OwnsPair(r, item)}) <= 1

-----------------------------------------------------------------------------
(* Properties of the price filter of the home page *)

\* The bracket a price lies in, as the filter panel labels them.
BracketsOf(price) ==
    {b \in PriceRanges :
        \/ b = "under-25" /\ price < 25
        \/ b = "25-50" /\ 25 <= price /\ price < 50
        \/ b = "50-100" /\ 50 <= price /\ price < 100
        \/ b = "over-100" /\ price >= 100}

Selected == {priceFilter[i] : i \in DOMAIN priceFilter}

\* The list with the products kept for which keep holds, in the list's order.
Kept(list, keep(_)) == SelectSeq(list, keep)

\* C26: the price-bracket filter is applied to the product list already
\* returned by the server: with no bracket selected every product is shown;
\* with brackets selected a product is shown iff its price lies in at least
\* one selected bracket, where the brackets are price < 25, 25 <= price < 50,
\* 50 <= price < 100 and price >= 100, so every price lies in exactly one
\* bracket and selecting all four shows the same products as selecting none.
C26_PriceBrackets ==
    LET shown == filteredProducts(HomeProducts, priceFilter) IN
    /\ Selected = {} => shown = HomeProducts
    /\ Selected # {} =>
          shown = Kept(HomeProducts,
                       LAMBDA p : BracketsOf(ParseFloat(p.price)) \cap Selected # {})
    /\ \A i \in DOMAIN HomeProducts :
          Cardinality({b \in PriceRanges :
                          InRange(ParseFloat(HomeProducts[i].price), b)}) = 1
    /\ Selected = PriceRanges => shown = filteredProducts(HomeProducts, <<>>)

\* Brackets are selected, and the server's list has a product that is shown
\* and one that is filtered out.
C26_Witness ==
    /\ Selected # {}
    /\ Len(filteredProducts(HomeProducts, priceFilter)) > 0
    /\ Len(filteredProducts(HomeProducts, priceFilter)) < Len(HomeProducts)

-----------------------------------------------------------------------------
(* Properties of the product list *)

\* The lower-cased search string is a substring of the lower-cased text.
TextMatches(p, field, search) ==
    field \in DOMAIN p /\ Includes(ToLowerCase(p[field]), ToLowerCase(search))

\* The active products that satisfy every supplied filter.
ProductsWanted(filters) ==
    {p \in products :
        /\ p.isActive
        /\ "categoryId" \in DOMAIN filters => p.categoryId = filters.categoryId
        /\ "search" \in DOMAIN filters =>
              \/ TextMatches(p, "name", filters.search)
              \/ TextMatches(p, "nameHindi", filters.search)
              \/ TextMatches(p, "description", filters.search)}

\* C24: listProducts(filters) returns exactly the products that satisfy every
\* supplied filter: categoryId equals the given id when a category is given,
\* and the lower-cased search string is a substring of the lower-cased name,
\* localized name or description when a search is given; an omitted filter
\* excludes nothing, and no inactive product is returned.
C24_ProductsMatchFilters ==
    [][\A query \in ProductQueries : \A fails \in BOOLEAN :
          GetProductsRoute(query, fails) =>
              /\ {ret'.list[i] : i \in DOMAIN ret'.list} = ProductsWanted(FiltersOf(query))
              /\ Len(ret'.list) = Cardinality(ProductsWanted(FiltersOf(query)))]_vars

-----------------------------------------------------------------------------
(* Properties of the cart routes *)

HasRow(rows, id) == \E r \in rows : r.id = id

\* The ids a listing of the owner's cart shows.
ListedIds(userId, sessionId) ==
    {GetCartItems(userId, sessionId)[i].id : i \in DOMAIN GetCartItems(userId, sessionId)}

\* C11: updateQuantity(itemId, q) with q <= 0 removes the cart item itemId, and
\* a listing of that owner's cart afterwards does not contain itemId; this
\* holds for q = 0 and for every negative q, through PUT /api/cart/:id (whose
\* storage call is updateCartItem).
C11_NonPositiveQuantityRemoves ==
    [][\A id \in 1..MaxCartId : \A q \in {-1, 0} :
          PutCart(id, [quantity |-> q], FALSE) =>
              /\ ~HasRow(cartItems', id)
              /\ \A k \in RequestKeys : id \notin ListedIds(k.userId, k.sessionId)']_vars

\* The owner's rows whose product resolves, each joined with its product.
OwnersResolvedRows(userId, sessionId) ==
    {[id |-> x[1].id, productId |-> x[1].productId, quantity |-> x[1].quantity,
      product |-> x[2]] :
        x \in {y \in cartItems \X products :
                  OwnedBy(y[1], userId, sessionId) /\ y[2].id = y[1].productId}}

\* C15: listCart(ownerKey) returns exactly the cart rows owned by ownerKey
\* whose productId resolves to an existing product, each joined with that
\* product and listed once; rows whose product does not exist are omitted and
\* rows of other owners never appear.
C15_ListingIsOwnersResolvedRows ==
    [][\A k \in RequestKeys : \A fails \in BOOLEAN :
          GetCart(k.userId, k.sessionId, fails) =>
              /\ {ret'.list[i] : i \in DOMAIN ret'.list} =
                    OwnersResolvedRows(k.userId, k.sessionId)
              /\ Len(ret'.list) = Cardinality(OwnersResolvedRows(k.userId, k.sessionId))]_vars

\* 404 exactly when no cart item has the id, and then the cart is unchanged;
\* 200 when the item exists.
NotFoundRule(id) ==
    /\ res' = 404 <=> ~HasRow(cartItems, id)
    /\ ~HasRow(cartItems, id) => cartItems' = cartItems
    /\ HasRow(cartItems, id) => res' = 200

\* C19: PUT /api/cart/:id with a positive quantity and DELETE /api/cart/:id
\* answer 404 exactly when no cart item with that id exists, and in that case
\* the stored cart is unchanged; when the item exists they answer 200.
C19_NotFoundIffNoSuchItem ==
    [][\A id \in 1..MaxCartId :
          /\ \A q \in 1..2 : PutCart(id, [quantity |-> q], FALSE) => NotFoundRule(id)
          /\ DeleteCartItem(id, FALSE) => NotFoundRule(id)]_vars

\* C20: every storage failure during a request is answered with HTTP 500: no
\* endpoint answers 200 or 404 when the storage call it made failed.
C20_StorageFailureIs500 ==
    [][/\ \A k \in RequestKeys :
            /\ GetCart(k.userId, k.sessionId, TRUE) => res' = 500
            /\ DeleteCart(k.userId, k.sessionId, TRUE) => res' = 500
       /\ \A body \in CartBodies :
            (InsertCartItemValid(body) /\ PostCart(body, TRUE)) => res' = 500
       /\ \A id \in 1..MaxCartId :
            /\ DeleteCartItem(id, TRUE) => res' = 500
            /\ \A body \in QuantityBodies :
                  (~InvalidQuantity(body) /\ PutCart(id, body, TRUE)) => res' = 500]_vars

\* The request is answered 400 and no table has changed.
Rejected == res' = 400 /\ UNCHANGED <<cartVars, orderVars, catalogVars>>

\* A body of POST /api/orders that passes validation: a valid header and at
\* least one line item, each well formed.
OrderBodyValid(body) ==
    /\ InsertOrderValid(body.order)
    /\ Len(body.items) > 0
    /\ \A i \in DOMAIN body.items : WellFormedItem(body.items[i])

\* C18: every mutating endpoint (POST /api/cart, PUT /api/cart/:id,
\* POST /api/orders, POST /api/products/:id/reviews) validates the request body
\* before touching storage: a body that fails validation, an order whose line
\* items are malformed included, is answered 400 and every stored table is
\* left unchanged (no statement fails but the insert of a malformed item).
C18_InvalidBodyRejected ==
    [][/\ \A body \in AnyCartBodies :
            (~InsertCartItemValid(body) /\ PostCart(body, FALSE)) => Rejected
       /\ \A id \in 1..MaxCartId : \A body \in QuantityBodies :
            (InvalidQuantity(body) /\ PutCart(id, body, FALSE)) => Rejected
       /\ \A body \in AnyOrderBodies :
            (~OrderBodyValid(body) /\ PostOrders(body, FirstMalformed(body.items)))
                => Rejected
       /\ \A productId \in ProductIds : \A body \in AnyReviewBodies :
            (~InsertReviewValid(ReviewData(productId, body))
                /\ PostReview(productId, body, FALSE)) => Rejected]_vars

-----------------------------------------------------------------------------
(* Properties of order creation *)

\* The persisted order items that carry an order id, in insertion order.
ItemsOf(orderId) == SelectSeq(orderItems, LAMBDA r : r.orderId = orderId)

\* C3: creating an order with N >= 1 line items that completes without error
\* results in exactly N persisted order items whose orderId is the id of the
\* newly created order header, and the call returns that header.
C3_OrderHasItsItems ==
    (ret.op = "createOrder" /\ ret.ok) =>
        \E o \in orders :
            /\ ret.rows = {o}
            /\ o.id = nextOrderId - 1
            /\ Len(submitted[o.id]) >= 1
            /\ Len(ItemsOf(o.id)) = Len(submitted[o.id])

\* A second order, of two line items, created without error.
C3_Witness ==
    /\ ret.op = "createOrder"
    /\ ret.ok
    /\ Cardinality(orders) = 2
    /\ \E o \in ret.rows : Len(submitted[o.id]) = 2 /\ Len(ItemsOf(o.id)) = 2

\* C4: order creation is atomic: in every reachable state, including after a
\* createOrder call that fails at the header insert or at any line-item
\* insert, each persisted order header has all of the line items it was
\* submitted with.
C4_OrderAtomic ==
    \A o \in orders :
        ItemsOf(o.id) = OrderItemRows(submitted[o.id], o.id, Len(submitted[o.id]))

\* What getOrder shows of the stored prices of the order's items.
StoredPrices(id) ==
    {[i \in DOMAIN o.items |-> <<o.items[i].unitPrice, o.items[i].totalPrice>>] :
        o \in GetOrder(id)}

\* C16: each persisted order item keeps the unit price captured at submission
\* time: rewriting a product's live price after the order was created leaves
\* the unitPrice and totalPrice of every existing order item, as getOrder
\* returns them, unchanged, and they are the ones the order was submitted with.
C16_PriceSnapshotKept ==
    /\ [](\A o \in orders : \A shown \in GetOrder(o.id) :
            \A i \in DOMAIN shown.items :
                /\ shown.items[i].unitPrice = submitted[o.id][i].unitPrice
                /\ shown.items[i].totalPrice = submitted[o.id][i].totalPrice)
    /\ [][\A id \in ProductIds : \A price \in LivePrices :
            ChangeProductPrice(id, price) =>
                \A o \in orders : StoredPrices(o.id)' = StoredPrices(o.id)]_vars

\* An order item of product 1 whose stored unit price is no longer the live
\* price of product 1.
C16_Witness ==
    \E o \in orders : \E shown \in GetOrder(o.id) : \E i \in DOMAIN shown.items :
        /\ shown.items[i].productId = 1
        /\ shown.items[i].product.price = <<1, 2, 0>>
        /\ shown.items[i].unitPrice = <<1, 0, 0>>

C21_OrdersNeedItems ==
    /\ [](\A o \in orders : Len(submitted[o.id]) >= 1)
    /\ [][\A body \in OrderBodies : \A failAt \in 0..InsertsOf(body) :
            (PostOrders(body, failAt)
                /\ ("items" \notin DOMAIN body \/ body.items = <<>>))
            => (res' = 400 /\ UNCHANGED orderVars)]_vars

\* One order with one line item is stored and the last request was answered
\* 400.
C21_Witness ==
    /\ res = 400
    /\ Cardinality(orders) = 1
    /\ \E o \in orders : Len(submitted[o.id]) = 1 /\ Len(ItemsOf(o.id)) = 1

\* C5: every persisted order satisfies total = subtotal + deliveryCharge, for
\* every order accepted by POST /api/orders.
C5_TotalIsSum ==
    \A o \in orders :
        ParseFloat(o.total) = ParseFloat(o.subtotal) + ParseFloat(o.deliveryCharge)

-----------------------------------------------------------------------------
(* Properties of the checkout page *)

RECURSIVE SumOfRows(_)
\* The sum, over a set of cart rows, of the product's price times the quantity.
SumOfRows(rows) ==
    IF rows = {} THEN 0
    ELSE LET r == CHOOSE x \in rows : TRUE
             p == CHOOSE x \in Products : x.id = r.productId
         IN ParseFloat(p.price) * r.quantity + SumOfRows(rows \ {r})

\* The rows the page shows: the guest session's rows of the cart table, which
\* the session no longer changes once the page has loaded them.
ShownRows == {r \in cartItems : r.sessionId = GuestSession}

\* C6: for every cart content of the checkout page, subtotal is the sum over
\* the cart items of price x quantity; deliveryCharge = 0 when subtotal >= 500
\* and 25 when subtotal < 500; total = subtotal + deliveryCharge exactly; the
\* items {100 x 2, 50 x 1} give subtotal 250, deliveryCharge 25, total 275.
C6_CheckoutTotals ==
    ~isLoading =>
        LET subtotal == Subtotal(cartData)
            deliveryCharge == DeliveryCharge(subtotal)
            total == Total(cartData)
        IN /\ subtotal = SumOfRows(ShownRows)
           /\ subtotal >= 500 => deliveryCharge = 0
           /\ subtotal < 500 => deliveryCharge = 25
           /\ total = subtotal + deliveryCharge
           /\ ({<<r.productId, r.quantity>> : r \in ShownRows} = {<<1, 2>>, <<2, 1>>})
                 => (subtotal = 250 /\ deliveryCharge = 25 /\ total = 275)

\* The page shows a cart whose subtotal is exactly 500.
C6_Witness == ~isLoading /\ Len(cartData) = 2 /\ Subtotal(cartData) = 500

\* C7: the step of the wizard starts at CartReview (1) and only ever changes
\* by one, along 1 -> 2 -> 3 or 3 -> 2 -> 1; it never leaves {1, 2, 3}.
C7_StepsAreLinear ==
    /\ currentStep = 1
    /\ [](currentStep \in {1, 2, 3})
    /\ [][currentStep' = currentStep + 1 \/ currentStep' = currentStep - 1
            \/ currentStep' = currentStep]_vars

\* Back at the address step after Place Order was pressed at the payment step.
C7_Witness == currentStep = 2 /\ toast = "Address Required"

\* C8: the checkout reaches Placed only from Payment and only after the
\* order-creation call has returned successfully; when the call fails, the
\* wizard stays at Payment and an error is reported.
C8_PlacedOnlyFromPayment ==
    [][/\ (location' = "/order-confirmation" /\ location = "/checkout") =>
            (currentStep = 3 /\ currentStep' = 3 /\ mutation.response = 200)
       /\ (mutation.status = "pending" /\ mutation'.status = "error") =>
            (currentStep' = 3 /\ toast' = "Order Failed"
                /\ location' = "/checkout")]_vars

\* A press of Place Order that sends nothing: no request, no order, the page
\* still at the payment step, the address error shown.
C9_Unsent ==
    /\ mutation' = mutation
    /\ orders' = orders
    /\ orderItems' = orderItems
    /\ location' = "/checkout"
    /\ currentStep' = 3
    /\ toast' = "Address Required"

\* C9: if any of the fields name, phone, address or pincode is empty when
\* Place Order is pressed, no order-creation request is sent, the checkout
\* does not reach Placed, the step remains Payment and an error is reported.
C9_IncompleteAddressBlocks ==
    [][(HandlePlaceOrder /\ \E f \in AddressFields : deliveryAddress[f] = "")
            => C9_Unsent]_vars

\* Place Order was refused for a missing pincode alone.
C9_Witness ==
    /\ toast = "Address Required"
    /\ currentStep = 3
    /\ deliveryAddress.pincode = ""
    /\ \A f \in AddressFields \ {"pincode"} : deliveryAddress[f] = "x"
    /\ mutation.status = "idle"

\* A step that sends an order request: the mutation turns pending and
\* unanswered.
RequestSent ==
    /\ mutation'.status = "pending"
    /\ mutation'.response = 0
    /\ ~(mutation.status = "pending" /\ mutation.response = 0)

\* C29: at most one order-creation request of a checkout is in flight at any
\* time: while a request is pending the Place Order action is disabled, so a
\* second request can only be sent after the previous one has failed, and one
\* checkout session never creates two orders from a single successful
\* placement.
C29_OneRequestInFlight ==
    /\ [][RequestSent => mutation.status \in {"idle", "error"}]_vars
    /\ [][mutation.status = "pending" => ~ENABLED HandlePlaceOrder]_vars
    /\ [][orders' # orders =>
            /\ mutation.status = "pending"
            /\ mutation.response = 0
            /\ mutation'.response # 0
            /\ Cardinality(orders') = Cardinality(orders) + 1]_vars
    /\ [][mutation.status = "success" => (mutation' = mutation /\ orders' = orders)]_vars

\* A second request is in flight after the first one failed.
C29_Witness ==
    /\ mutation.status = "pending"
    /\ mutation.response = 0
    /\ toast = "Order Failed"

RECURSIVE SumOfTotalPrices(_)
\* The sum of the totalPrice of the items of an order request.
SumOfTotalPrices(items) ==
    IF Len(items) = 0 THEN 0
    ELSE SumOfTotalPrices(SubSeq(items, 1, Len(items) - 1))
            + ParseFloat(items[Len(items)].totalPrice)

\* What C30 says of an order request and the cart it was built from.
BuiltFrom(orderData, cart) ==
    /\ Len(orderData.items) = Len(cart)
    /\ \A i \in DOMAIN cart :
          /\ orderData.items[i].productId = cart[i].productId
          /\ orderData.items[i].quantity = cart[i].quantity
    /\ \A i \in DOMAIN orderData.items :
          ParseFloat(orderData.items[i].totalPrice)
              = ParseFloat(orderData.items[i].unitPrice) * orderData.items[i].quantity
    /\ ParseFloat(orderData.order.subtotal) = SumOfTotalPrices(orderData.items)

\* C30: the order submitted by the checkout is consistent with the cart it
\* was built from: it has one line item per cart item with the same productId
\* and quantity, each item's totalPrice equals unitPrice x quantity, and the
\* order's subtotal equals the sum of the items' totalPrice.
C30_OrderBuiltFromCart ==
    /\ [][RequestSent => BuiltFrom(mutation'.orderData, cartData)]_vars
    /\ [](mutation.status # "idle" => BuiltFrom(mutation.orderData, cartData))

\* A request built from a cart of two items, one of them at quantity 3.
C30_Witness ==
    /\ mutation.status = "pending"
    /\ Len(mutation.orderData.items) = 2
    /\ \E i \in DOMAIN cartData : cartData[i].quantity = 3

\* C10: after an order has been created successfully through the checkout,
\* the owner's cart in the cart store contains no items.
C10_CartClearedAfterOrder ==
    mutation.status = "success" => GetCartItems(NoUser, GuestSession) = <<>>

====
